---- MODULE Spec2Model ----
(***************************************************************************)
(* Agenda de Prestadores (src/agenda_web.py): the date/time normalizers,   *)
(* the next-due-date computation, the access check and the request         *)
(* handlers over the CSV-backed record collection.                         *)
(*                                                                         *)
(* Python strings that the code inspects character by character (dates,    *)
(* times, the custom month count) are sequences of one-character strings;  *)
(* the token "sup2" stands for U+00B2, a character for which               *)
(* str.isdigit() is true and int() raises.  Strings the code only compares *)
(* for equality (store names, PINs, policy names) are atomic strings.      *)
(* A Python call that may raise returns [raised, val].                     *)
(***************************************************************************)
EXTENDS Integers, Sequences, FiniteSets, TLC

\* ------------------------------------------------------------------ strings

Digits == <<"0", "1", "2", "3", "4", "5", "6", "7", "8", "9">>

AsciiDigit == {Digits[i] : i \in 1..10}

DigitVal(c) == (CHOOSE i \in 1..10 : Digits[i] = c) - 1

Ok(v) == [raised |-> FALSE, val |-> v]

Raised == [raised |-> TRUE, val |-> <<>>]

SetMin(S) == CHOOSE x \in S : \A y \in S : x <= y

SetMax(S) == CHOOSE x \in S : \A y \in S : x >= y

\* str.strip(): leading and trailing blanks removed
Strip(s) ==
    LET keep == {i \in 1..Len(s) : s[i] # " "}
    IN IF keep = {} THEN <<>> ELSE SubSeq(s, SetMin(keep), SetMax(keep))

\* c in s
Contains(s, c) == \E i \in 1..Len(s) : s[i] = c

\* str.split(c): the parts between the occurrences of c, occurrences + 1 of them
RECURSIVE Split(_, _)
Split(s, c) ==
    LET at == {i \in 1..Len(s) : s[i] = c}
    IN IF at = {} THEN <<s>>
       ELSE LET i == SetMin(at)
            IN <<SubSeq(s, 1, i - 1)>> \o Split(SubSeq(s, i + 1, Len(s)), c)

\* str.zfill(w): zeros on the left up to width w, after a leading sign
Zfill(s, w) ==
    LET zeros == [i \in 1..(w - Len(s)) |-> "0"]
    IN IF Len(s) >= w THEN s
       ELSE IF s # <<>> /\ s[1] \in {"+", "-"} THEN <<s[1]>> \o zeros \o Tail(s)
       ELSE zeros \o s

\* str.isdigit(): non-empty and every character a digit character
IsDigitStr(s) == s # <<>> /\ \A i \in 1..Len(s) : s[i] \in AsciiDigit \cup {"sup2"}

\* every character an ASCII decimal digit (what the regex \d of strptime and
\* int() accept among the characters modelled)
AllAsciiDigits(s) == \A i \in 1..Len(s) : s[i] \in AsciiDigit

\* the value of a string of ASCII digits
RECURSIVE DecVal(_)
DecVal(s) == IF s = <<>> THEN 0 ELSE 10 * DecVal(SubSeq(s, 1, Len(s) - 1)) + DigitVal(s[Len(s)])

\* int(s) for a string on which isdigit() holds
IntOf(s) == IF AllAsciiDigits(s) THEN Ok(DecVal(s)) ELSE Raised

\* the decimal digit of n's units
DigitOf(n) == Digits[(n % 10) + 1]

\* "%02d"
Pad2(n) == <<DigitOf(n \div 10), DigitOf(n)>>

\* n in decimal. "%Y" as the C library's strftime writes it on Linux is the
\* year in decimal with no zero padding (a year under 1000 has fewer than four
\* digits)
RECURSIVE DecStr(_)
DecStr(n) == IF n < 10 THEN <<DigitOf(n)>> ELSE DecStr(n \div 10) \o <<DigitOf(n)>>

\* ------------------------------------------------------------------ utils

\* A value computed once and used many times is the parameter of a local
\* operator: each definition below reads as the function it models, with the
\* function's local variables as those parameters.

fmt_date(raw) ==
    LET Split3(p, iso) ==
            IF Len(p) # 3 THEN Raised
            ELSE IF iso THEN Ok(p[3] \o <<"/">> \o p[2] \o <<"/">> \o p[1])
            ELSE Ok(Zfill(p[1], 2) \o <<"/">> \o Zfill(p[2], 2) \o <<"/">> \o p[3])
        Body(s) ==
            IF s = <<>> THEN Ok(<<>>)
            ELSE IF Contains(s, "-") /\ Len(s) = 10 THEN Split3(Split(s, "-"), TRUE)
            ELSE IF Contains(s, "/") /\ Len(s) = 10 THEN Split3(Split(s, "/"), FALSE)
            ELSE Ok(s)
    IN Body(Strip(raw))

fmt_time(raw) ==
    LET Joined(p) == Zfill(p[1], 2) \o <<":">> \o Zfill(p[2], 2)
        Cut(z) == SubSeq(z, 1, 2) \o <<":">> \o SubSeq(z, 3, 4)
        Body(s) ==
            IF s = <<>> THEN <<>>
            ELSE IF Contains(s, ":") THEN Joined(Split(s, ":") \o << <<"0", "0">> >>)
            ELSE IF IsDigitStr(s) /\ Len(s) \in {3, 4} THEN Cut(Zfill(s, 4))
            ELSE s
    IN Body(Strip(raw))

\* ---------------------------------------------------------------- datetime

\* the leap-year test written inline in add_months; datetime uses the same rule
IsLeap(year) == year % 4 = 0 /\ (year % 100 # 0 \/ year % 400 = 0)

days_in_month(year, month) ==
    <<31, IF IsLeap(year) THEN 29 ELSE 28, 31, 30, 31, 30, 31, 31, 30, 31, 30, 31>>[month]

\* datetime(year, month, day, ...) accepts years 1..9999 and days of the month
ValidDate(year, month, day) ==
    /\ year >= 1 /\ year <= 9999
    /\ month \in 1..12
    /\ day >= 1 /\ day <= days_in_month(year, month)

\* dt.replace(year=, month=, day=): ValueError when the date does not exist
Replace(dt, year, month, day) ==
    IF ValidDate(year, month, day)
    THEN Ok([dt EXCEPT !.year = year, !.month = month, !.day = day])
    ELSE Raised

add_months(dt, months) ==
    LET month0 == dt.month - 1 + months
        year == dt.year + (month0 \div 12)
        month == (month0 % 12) + 1
        day == IF dt.day < days_in_month(year, month) THEN dt.day
               ELSE days_in_month(year, month)
    IN Replace(dt, year, month, day)

\* dt + timedelta(days=n) for n < 28: OverflowError past 31/12/9999
AddDays(dt, n) ==
    LET dim == days_in_month(dt.year, dt.month)
        over == dt.day + n > dim
        day == IF over THEN dt.day + n - dim ELSE dt.day + n
        month == IF ~over THEN dt.month ELSE IF dt.month = 12 THEN 1 ELSE dt.month + 1
        year == IF over /\ dt.month = 12 THEN dt.year + 1 ELSE dt.year
    IN IF year > 9999 THEN Raised
       ELSE Ok([dt EXCEPT !.year = year, !.month = month, !.day = day])

\* the fields of strptime's regex: -1 when the text does not match
\* %d: 3[0-1]|[1-2]\d|0[1-9]|[1-9]| [1-9]
FieldDay(p) ==
    IF Len(p) = 1 /\ p[1] \in AsciiDigit \ {"0"} THEN DigitVal(p[1])
    ELSE IF Len(p) = 2 /\ p[1] \in {"0", " "} /\ p[2] \in AsciiDigit \ {"0"} THEN DigitVal(p[2])
    ELSE IF Len(p) = 2 /\ AllAsciiDigits(p) /\ DecVal(p) \in 10..31 THEN DecVal(p)
    ELSE -1

\* %m: 1[0-2]|0[1-9]|[1-9]
FieldMonth(p) ==
    IF Len(p) \in {1, 2} /\ AllAsciiDigits(p) /\ DecVal(p) \in 1..12 THEN DecVal(p) ELSE -1

\* %Y: \d\d\d\d
FieldYear(p) == IF Len(p) = 4 /\ AllAsciiDigits(p) THEN DecVal(p) ELSE -1

\* %H: 2[0-3]|[0-1]\d|\d
FieldHour(p) ==
    IF Len(p) \in {1, 2} /\ AllAsciiDigits(p) /\ DecVal(p) \in 0..23 THEN DecVal(p) ELSE -1

\* %M: [0-5]\d|\d
FieldMinute(p) ==
    IF Len(p) \in {1, 2} /\ AllAsciiDigits(p) /\ DecVal(p) \in 0..59 THEN DecVal(p) ELSE -1

NoDate == [ok |-> FALSE, year |-> 0, month |-> 0, day |-> 0, hour |-> 0, minute |-> 0]

\* the date of the three fields matched, if it exists
DateOf(year, month, day) ==
    IF day < 0 \/ month < 0 \/ year < 0 THEN NoDate
    ELSE IF ~ValidDate(year, month, day) THEN NoDate
    ELSE [ok |-> TRUE, year |-> year, month |-> month, day |-> day,
          hour |-> 0, minute |-> 0]

\* datetime.strptime(s, "%d/%m/%Y"), as parse_dmy_opt calls it
StrptimeDate(s) ==
    LET Body(p) ==
            IF Len(p) # 3 THEN NoDate
            ELSE DateOf(FieldYear(p[3]), FieldMonth(p[2]), FieldDay(p[1]))
    IN Body(Split(s, "/"))

\* datetime.strptime(s, "%d/%m/%Y %H:%M"): the whole of s must match
\* day "/" month "/" year blanks hour ":" minute
StrptimeDateTime(s) ==
    LET WithTime(date, hour, minute) ==
            IF ~date.ok \/ hour < 0 \/ minute < 0 THEN NoDate
            ELSE [date EXCEPT !.hour = hour, !.minute = minute]
        Clock(date, rest, mm) ==
            IF rest[1] # " " \/ rest[Len(rest)] = " " THEN NoDate
            ELSE WithTime(date, FieldHour(Strip(rest)), FieldMinute(mm))
        Tail3(dd, mo, q) ==
            IF Len(q) # 2 \/ Len(q[1]) < 6 THEN NoDate
            ELSE Clock(DateOf(FieldYear(SubSeq(q[1], 1, 4)), FieldMonth(mo), FieldDay(dd)),
                       SubSeq(q[1], 5, Len(q[1])), q[2])
        Body(p) == IF Len(p) # 3 THEN NoDate ELSE Tail3(p[1], p[2], Split(p[3], ":"))
    IN Body(Split(s, "/"))

\* dt.strftime("%d/%m/%Y")
Strftime(dt) == Pad2(dt.day) \o <<"/">> \o Pad2(dt.month) \o <<"/">> \o DecStr(dt.year)

\* the result of add_months or of + timedelta, formatted
Formatted(r) == IF r.raised THEN Raised ELSE Ok(Strftime(r.val))

\* The policy names are "15 dias", "1 mês", "2 meses", "3 meses", "6 meses",
\* "12 meses" and "personalizado" in the source; "1 mes" stands for "1 mês".
calcular_proxima(data_servico, hora_servico, prazo, personalizado_meses) ==
    LET Custom(base_dt, n) ==
            IF n.raised THEN Raised ELSE Formatted(add_months(base_dt, n.val))
        Body(base_dt) ==
            IF ~base_dt.ok THEN Ok(<<>>)
            ELSE IF prazo = "15 dias" THEN Formatted(AddDays(base_dt, 15))
            ELSE IF prazo = "1 mes" THEN Formatted(add_months(base_dt, 1))
            ELSE IF prazo = "2 meses" THEN Formatted(add_months(base_dt, 2))
            ELSE IF prazo = "3 meses" THEN Formatted(add_months(base_dt, 3))
            ELSE IF prazo = "6 meses" THEN Formatted(add_months(base_dt, 6))
            ELSE IF prazo = "12 meses" THEN Formatted(add_months(base_dt, 12))
            ELSE IF prazo = "personalizado" /\ IsDigitStr(personalizado_meses)
                 THEN Custom(base_dt, IntOf(personalizado_meses))
            ELSE Ok(<<>>)
    IN Body(StrptimeDateTime(data_servico \o <<" ">> \o hora_servico))

\* datetime.strptime(s, "%Y-%m-%d"), as apply_period_filter calls it
StrptimeIso(s) ==
    LET Body(p) ==
            IF Len(p) # 3 THEN NoDate
            ELSE DateOf(FieldYear(p[1]), FieldMonth(p[2]), FieldDay(p[3]))
    IN Body(Split(s, "-"))

parse_dmy_opt(s) == StrptimeDate(s)

\* a <= b on datetimes
DateTimeLE(a, b) ==
    LET ka == <<a.year, a.month, a.day, a.hour, a.minute>>
        kb == <<b.year, b.month, b.day, b.hour, b.minute>>
    IN \/ ka = kb
       \/ \E i \in 1..5 : ka[i] < kb[i] /\ \A j \in 1..(i - 1) : ka[j] = kb[j]

\* ------------------------------------------------------------------ access

\* the store names of LOJAS, written without their accents
LOJAS == <<"4g Comercio de Alimentos e Bebidas Ltda", "Tenro Plaza Niteroi Ltda",
           "Gdm Cafes e Bolos Ltda", "Tenro Cafe Americas">>

\* _default_pins(): what LOJA_PINS is without LOJA_PINS_JSON
default_pins ==
    [l \in {LOJAS[i] : i \in 1..4} |->
        IF l = LOJAS[1] THEN "1111" ELSE IF l = LOJAS[2] THEN "2222"
        ELSE IF l = LOJAS[3] THEN "3333" ELSE "4444"]

\* ADMIN_PIN without the environment variable
DefaultAdminPin == "9999"

\* Python's None, for the store of a caller that is not store-scoped
None == "<None>"

\* check_access with the per-store rule tried before the admin rule
CheckAccess_StoreFirst(admin_pin, loja_pins, loja, pin) ==
    IF loja # "" /\ pin # "" /\ loja \in DOMAIN loja_pins /\ loja_pins[loja] = pin
    THEN [mode |-> "loja", loja |-> loja]
    ELSE IF pin = admin_pin /\ admin_pin # "" THEN [mode |-> "admin", loja |-> None]
    ELSE IF loja # "" THEN [mode |-> "denied", loja |-> None]
    ELSE [mode |-> "open", loja |-> None]

\* check_access without the test that the PIN is not empty
CheckAccess_NoPinGuard(admin_pin, loja_pins, loja, pin) ==
    IF pin = admin_pin /\ admin_pin # "" THEN [mode |-> "admin", loja |-> None]
    ELSE IF loja # "" /\ loja \in DOMAIN loja_pins /\ loja_pins[loja] = pin
         THEN [mode |-> "loja", loja |-> loja]
    ELSE IF loja # "" THEN [mode |-> "denied", loja |-> None]
    ELSE [mode |-> "open", loja |-> None]

\* check_access over a configuration (ADMIN_PIN, LOJA_PINS): a dict lookup of a
\* store with no PIN gives None, which equals no pin
CheckAccess(admin_pin, loja_pins, loja, pin) ==
    IF pin = admin_pin /\ admin_pin # "" THEN [mode |-> "admin", loja |-> None]
    ELSE IF loja # "" /\ pin # "" /\ loja \in DOMAIN loja_pins /\ loja_pins[loja] = pin
         THEN [mode |-> "loja", loja |-> loja]
    ELSE IF loja # "" THEN [mode |-> "denied", loja |-> None]
    ELSE [mode |-> "open", loja |-> None]

\* check_access under the default configuration
check_access(loja, pin) == CheckAccess(DefaultAdminPin, default_pins, loja, pin)

\* ------------------------------------------------------------------ filter

\* the period test with both bounds exclusive
InPeriod_Strict(d, di, df) == d.ok /\ ~DateTimeLE(d, di) /\ ~DateTimeLE(df, d)

\* di <= d <= df for the date d of a row, parsed by parse_dmy_opt
InPeriod(d, di, df) == d.ok /\ DateTimeLE(di, d) /\ DateTimeLE(d, df)

\* the filter dropping the rows whose data does not parse whatever the bounds
apply_period_filter_DropUnparsed(rows, inicio_iso, fim_iso) ==
    LET Parses(r) == parse_dmy_opt(r.data).ok
        Body(di, df) ==
            IF ~di.ok \/ ~df.ok THEN SelectSeq(rows, Parses)
            ELSE LET Keep(r) == InPeriod(parse_dmy_opt(r.data), di, df)
                 IN SelectSeq(rows, Keep)
    IN IF inicio_iso = <<>> \/ fim_iso = <<>> THEN SelectSeq(rows, Parses)
       ELSE Body(StrptimeIso(inicio_iso), StrptimeIso(fim_iso))

apply_period_filter(rows, inicio_iso, fim_iso) ==
    LET Body(di, df) ==
            IF ~di.ok \/ ~df.ok THEN rows
            ELSE LET Keep(r) == InPeriod(parse_dmy_opt(r.data), di, df)
                 IN SelectSeq(rows, Keep)
    IN IF inicio_iso = <<>> \/ fim_iso = <<>> THEN rows
       ELSE Body(StrptimeIso(inicio_iso), StrptimeIso(fim_iso))

\* -------------------------------------------------------------------- data

\* the elements of s at the indices in I, in order, from index i on
RECURSIVE Pick(_, _, _)
Pick(s, I, i) ==
    IF i > Len(s) THEN <<>>
    ELSE (IF i \in I THEN <<s[i]>> ELSE <<>>) \o Pick(s, I, i + 1)

\* x in list
InSeq(x, list) == \E i \in 1..Len(list) : list[i] = x

\* read_all over the rows of the CSV file: every row's data and hora are
\* normalized again; fmt_date raising ends the request
read_all(file) ==
    LET Body(dates) ==
            IF \E i \in 1..Len(file) : dates[i].raised THEN Raised
            ELSE Ok([i \in 1..Len(file) |->
                        [file[i] EXCEPT !.data = dates[i].val, !.hora = fmt_time(@)]])
    IN Body([i \in 1..Len(file) |-> fmt_date(file[i].data)])

\* write_all: the file holds the rows given, field for field
write_all(rows) == rows

\* the letters of the supplier names modelled, and str.lower / str.upper on them
Lower(c) == IF c = "A" THEN "a" ELSE IF c = "B" THEN "b" ELSE c

Upper(c) == IF c = "a" THEN "A" ELSE IF c = "b" THEN "B" ELSE c

LowerStr(s) == [i \in 1..Len(s) |-> Lower(s[i])]

\* str.capitalize()
Capitalize(w) == [i \in 1..Len(w) |-> IF i = 1 THEN Upper(w[i]) ELSE Lower(w[i])]

\* " ".join(p.capitalize() for p in novo.split())
RECURSIVE CapitalizeWords(_)
CapitalizeWords(s) ==
    LET First(t, i) ==
            Capitalize(SubSeq(t, 1, i - 1)) \o <<" ">>
                \o CapitalizeWords(SubSeq(t, i + 1, Len(t)))
        Words(t, blanks) == IF blanks = {} THEN Capitalize(t) ELSE First(t, SetMin(blanks))
        Body(t) == Words(t, {i \in 1..Len(t) : t[i] = " "})
    IN Body(Strip(s))

\* read_suppliers over the names of the suppliers file: stripped, the empty
\* ones and the case-insensitive repeats dropped
read_suppliers(file) ==
    LET Body(items) ==
            Pick(items,
                 {i \in 1..Len(items) :
                     /\ items[i] # <<>>
                     /\ \A j \in 1..(i - 1) : LowerStr(items[j]) # LowerStr(items[i])},
                 1)
    IN Body([i \in 1..Len(file) |-> Strip(file[i])])

\* write_suppliers
write_suppliers(items) == [i \in 1..Len(items) |-> Strip(items[i])]

\* del items[i] (0-based)
DelAt(list, i) == SubSeq(list, 1, i) \o SubSeq(list, i + 2, Len(list))

\* ------------------------------------------------------------------ routes

\* what a handler does: the response status, the CSV file after it and the
\* records it returns
Outcome(status, file, body) == [status |-> status, file |-> file, body |-> body]

\* the rows a listing shows (index GET, download_csv, download_pdf): read_all,
\* the rows of the caller's store when store-scoped, the period filter
Listing(file, mode, loja_autorizada, inicio, fim) ==
    LET OfStore(r) == r.loja = loja_autorizada
        Scoped(rows) == IF mode = "loja" THEN SelectSeq(rows, OfStore) ELSE rows
        Body(loaded) ==
            IF loaded.raised THEN Outcome(500, file, <<>>)
            ELSE Outcome(200, file, apply_period_filter(Scoped(loaded.val), inicio, fim))
    IN Body(read_all(file))

\* the text of a policy name: its count, character by character, then its unit,
\* so that the stored "2 meses" is one value however it was produced
PolicyText(prazo) ==
    CASE prazo = "15 dias" -> <<"1", "5", " dias">>
      [] prazo = "1 mes" -> <<"1", " mes">>
      [] prazo = "2 meses" -> <<"2", " meses">>
      [] prazo = "3 meses" -> <<"3", " meses">>
      [] prazo = "6 meses" -> <<"6", " meses">>
      [] prazo = "12 meses" -> <<"1", "2", " meses">>
      [] OTHER -> <<prazo>>

\* the stored prazo: the policy name, or the custom count followed by " meses"
StoredPrazo(prazo, personalizado) ==
    IF prazo # "personalizado" THEN PolicyText(prazo)
    ELSE personalizado \o <<" meses">>

\* the refusal with the open mode let through
refused_DeniedOnly(mode) == mode = "denied"

\* the modes every record route answers with 403 before anything else
refused(mode) == mode = "open" \/ mode = "denied"

\* loja_final taken from the form whatever the mode
loja_final_FromForm(mode, loja_autorizada, loja_form) == loja_form

\* loja_final of index: loja_autorizada or loja_form, then the authorized store
\* forced for a store-scoped caller
loja_final(mode, loja_autorizada, loja_form) ==
    IF mode = "loja" THEN loja_autorizada
    ELSE IF loja_autorizada \notin {None, ""} THEN loja_autorizada
    ELSE loja_form

\* edit: a store may only edit its own records
edit_forbidden(mode, reg, loja_autorizada) == mode = "loja" /\ reg.loja # loja_autorizada

\* delete with no ownership test
delete_forbidden_Never(mode, reg, loja_autorizada) == FALSE

\* delete: a store may only delete its own records
delete_forbidden(mode, reg, loja_autorizada) == mode = "loja" /\ reg.loja # loja_autorizada

index(file, suppliers, method, loja_lock, pin, filtro_inicio, filtro_fim, form) ==
    LET Save(loja, empresa, data, hora, personalizado, proxima, loaded) ==
            IF proxima.raised THEN Outcome(500, file, <<>>)
            ELSE IF loaded.raised THEN Outcome(500, file, <<>>)
            ELSE Outcome(302,
                         write_all(Append(loaded.val,
                            [loja |-> loja, empresa |-> empresa,
                             funcionario |-> form.funcionario, data |-> data, hora |-> hora,
                             prazo |-> StoredPrazo(form.prazo, personalizado),
                             proxima_data |-> proxima.val,
                             observacoes |-> form.observacoes])),
                         <<>>)
        Post(fornecedores, loja, empresa, data, hora, personalizado) ==
            IF data.raised THEN Outcome(500, file, <<>>)
            ELSE IF ~InSeq(empresa, fornecedores) THEN Outcome(400, file, <<>>)
            ELSE Save(loja, empresa, data.val, hora, personalizado,
                      calcular_proxima(data.val, hora, form.prazo, personalizado),
                      read_all(file))
        Body(mode, loja_autorizada) ==
            IF refused(mode) THEN Outcome(403, file, <<>>)
            ELSE IF method = "POST"
                 THEN Post(read_suppliers(suppliers),
                           loja_final(mode, loja_autorizada, form.loja),
                           Strip(form.empresa), fmt_date(form.data), fmt_time(form.hora),
                           Strip(form.personalizado))
            ELSE Listing(file, mode, loja_autorizada, filtro_inicio, filtro_fim)
        Access(acc) == Body(acc.mode, acc.loja)
    IN Access(check_access(loja_lock, pin))

\* id is the 0-based index of the URL
edit(file, suppliers, method, id, loja_lock, pin, form) ==
    LET Save(rows, reg, empresa, data, hora, personalizado, proxima) ==
            IF proxima.raised THEN Outcome(500, file, <<>>)
            ELSE Outcome(302,
                         write_all([rows EXCEPT ![id + 1] =
                            [reg EXCEPT !.empresa = empresa,
                                        !.funcionario = form.funcionario,
                                        !.data = data, !.hora = hora,
                                        !.observacoes = form.observacoes,
                                        !.prazo = StoredPrazo(form.prazo, personalizado),
                                        !.proxima_data = proxima.val]]),
                         <<>>)
        Post(rows, reg, fornecedores, empresa, data, hora, personalizado) ==
            IF ~InSeq(empresa, fornecedores) THEN Outcome(400, file, <<>>)
            ELSE IF data.raised THEN Outcome(500, file, <<>>)
            ELSE Save(rows, reg, empresa, data.val, hora, personalizado,
                      calcular_proxima(data.val, hora, form.prazo, personalizado))
        Found(mode, loja_autorizada, rows, reg) ==
            IF edit_forbidden(mode, reg, loja_autorizada) THEN Outcome(403, file, <<>>)
            ELSE IF method = "POST"
                 THEN Post(rows, reg, read_suppliers(suppliers), Strip(form.empresa),
                           fmt_date(form.data), fmt_time(form.hora),
                           Strip(form.personalizado))
            ELSE Outcome(200, file, <<reg>>)
        Loaded(mode, loja_autorizada, loaded) ==
            IF loaded.raised THEN Outcome(500, file, <<>>)
            ELSE IF id < 0 \/ id >= Len(loaded.val) THEN Outcome(404, file, <<>>)
            ELSE Found(mode, loja_autorizada, loaded.val, loaded.val[id + 1])
        Body(mode, loja_autorizada) ==
            IF refused(mode) THEN Outcome(403, file, <<>>)
            ELSE Loaded(mode, loja_autorizada, read_all(file))
        Access(acc) == Body(acc.mode, acc.loja)
    IN Access(check_access(loja_lock, pin))

delete(file, id, loja_lock, pin) ==
    LET Found(mode, loja_autorizada, rows, reg) ==
            IF delete_forbidden(mode, reg, loja_autorizada) THEN Outcome(403, file, <<>>)
            ELSE Outcome(302, write_all(DelAt(rows, id)), <<>>)
        Loaded(mode, loja_autorizada, loaded) ==
            IF loaded.raised THEN Outcome(500, file, <<>>)
            ELSE IF id < 0 \/ id >= Len(loaded.val) THEN Outcome(404, file, <<>>)
            ELSE Found(mode, loja_autorizada, loaded.val, loaded.val[id + 1])
        Body(mode, loja_autorizada) ==
            IF refused(mode) THEN Outcome(403, file, <<>>)
            ELSE Loaded(mode, loja_autorizada, read_all(file))
        Access(acc) == Body(acc.mode, acc.loja)
    IN Access(check_access(loja_lock, pin))

download_csv(file, loja_lock, pin, inicio, fim) ==
    LET Access(acc) ==
            IF refused(acc.mode) THEN Outcome(403, file, <<>>)
            ELSE Listing(file, acc.mode, acc.loja, inicio, fim)
    IN Access(check_access(loja_lock, pin))

download_pdf(file, loja_lock, pin, inicio, fim) ==
    LET Access(acc) ==
            IF refused(acc.mode) THEN Outcome(403, file, <<>>)
            ELSE Listing(file, acc.mode, acc.loja, inicio, fim)
    IN Access(check_access(loja_lock, pin))

\* the suppliers file after a request to /fornecedores, and the status
fornecedores_admin(suppliers, method, pin, novo, action, idx) ==
    LET Add(items, novo_norm) ==
            IF Strip(novo) # <<>> /\ ~InSeq(novo_norm, items)
            THEN [status |-> 302, suppliers |-> write_suppliers(Append(items, novo_norm))]
            ELSE [status |-> 302, suppliers |-> suppliers]
        Del(items, i) ==
            IF i.raised THEN [status |-> 500, suppliers |-> suppliers]
            ELSE IF 0 <= i.val /\ i.val < Len(items)
                 THEN [status |-> 302, suppliers |-> write_suppliers(DelAt(items, i.val))]
            ELSE [status |-> 302, suppliers |-> suppliers]
        Body(mode, items) ==
            IF mode # "admin" THEN [status |-> 403, suppliers |-> suppliers]
            ELSE IF method = "POST" THEN Add(items, CapitalizeWords(novo))
            ELSE IF action = "del" /\ IsDigitStr(idx) THEN Del(items, IntOf(idx))
            ELSE [status |-> 200, suppliers |-> suppliers]
    IN Body(check_access("", pin).mode, read_suppliers(suppliers))

\* ------------------------------------------------------- the running service

\* the records the collection may hold before creation is refused in the model
MaxRows == 2

VARIABLES
    csv_rows,        \* the rows of the file at CSV_PATH
    suppliers_csv,   \* the names in the file at SUPPLIERS_CSV
    req,             \* the request being answered, NoReq between requests
    resp,            \* its response: status and the records returned
    call,            \* a function called on its own: its name and arguments
    result           \* what the call returned, Pending before it returns

vars == <<csv_rows, suppliers_csv, req, resp, call, result>>

\* the (store, PIN) pairs of the requests: no store and no PIN, the admin PIN,
\* the right PIN of two stores, and a store with another store's PIN
Callers ==
    { [loja |-> "", pin |-> ""],
      [loja |-> "", pin |-> "9999"],
      [loja |-> LOJAS[1], pin |-> "1111"],
      [loja |-> LOJAS[2], pin |-> "2222"],
      [loja |-> LOJAS[1], pin |-> "2222"] }

\* the date, time and policy fields submitted: an ISO date with a month
\* policy; an unpadded date and a digits-only time with a custom count of 0; a
\* date in the last month of year 9999; a 10-character date with both "/" and
\* "-"
Schedules ==
    { [data |-> <<"2", "0", "2", "4", "-", "0", "1", "-", "3", "1">>,
       hora |-> <<"1", "0", ":", "0", "0">>, prazo |-> "1 mes", personalizado |-> <<>>],
      [data |-> <<"1", "/", "1", "/", "2", "0", "2", "4">>,
       hora |-> <<"9", "3", "0">>, prazo |-> "personalizado", personalizado |-> <<"0">>],
      [data |-> <<"3", "1", "/", "1", "2", "/", "9", "9", "9", "9">>,
       hora |-> <<"1", "0", ":", "0", "0">>, prazo |-> "1 mes", personalizado |-> <<>>],
      [data |-> <<"1", "/", "2", "/", "3", "-", "4", "-", "5", "6">>,
       hora |-> <<"1", "0", ":", "0", "0">>, prazo |-> "1 mes", personalizado |-> <<>>] }

\* the forms submitted: any store (one of them empty), a supplier of either
\* case, one of the schedules
Forms ==
    { [loja |-> l, empresa |-> e, funcionario |-> "Ana", data |-> c.data,
       hora |-> c.hora, prazo |-> c.prazo, personalizado |-> c.personalizado,
       observacoes |-> ""] :
      l \in {LOJAS[1], LOJAS[2], ""}, e \in {<<"A">>, <<"b">>}, c \in Schedules }

NoForm ==
    [loja |-> "", empresa |-> <<>>, funcionario |-> "", data |-> <<>>, hora |-> <<>>,
     prazo |-> "", personalizado |-> <<>>, observacoes |-> ""]

\* the period bounds of a listing: none, both, only the end
Periods ==
    { [inicio |-> <<>>, fim |-> <<>>],
      [inicio |-> <<"2", "0", "2", "4", "-", "0", "1", "-", "0", "1">>,
       fim |-> <<"2", "0", "2", "4", "-", "1", "2", "-", "3", "1">>],
      [inicio |-> <<>>, fim |-> <<"2", "0", "2", "4", "-", "1", "2", "-", "3", "1">>] }

NoPeriod == [inicio |-> <<>>, fim |-> <<>>]

Request(op, method, c, id, loja_form, per) ==
    [op |-> op, method |-> method, loja |-> c.loja, pin |-> c.pin, id |-> id,
     loja_form |-> loja_form, inicio |-> per.inicio, fim |-> per.fim]

NoReq == Request("none", "", [loja |-> "", pin |-> ""], 0, "", NoPeriod)

NoResp == [status |-> 0, body |-> <<>>]

NoCall == [fn |-> "none"]

Pending == [done |-> FALSE]

\* the value a call returned
Returned(v) == [done |-> TRUE, value |-> v]

\* no request is in progress and no file exists
Idle ==
    /\ csv_rows = <<>>
    /\ suppliers_csv = <<>>
    /\ req = NoReq
    /\ resp = NoResp

\* no file exists before the first request
Init ==
    /\ Idle
    /\ call = NoCall
    /\ result = Pending

\* the request r answered with the outcome out of its handler
Answer(r, out) ==
    /\ req' = r
    /\ resp' = [status |-> out.status, body |-> out.body]
    /\ csv_rows' = out.file
    /\ UNCHANGED <<suppliers_csv, call, result>>

\* a request to "/": the listing, or the creation of a record
IndexRequest ==
    /\ req = NoReq
    /\ \E c \in Callers :
          \/ \E per \in Periods :
                Answer(Request("index", "GET", c, 0, "", per),
                       index(csv_rows, suppliers_csv, "GET", c.loja, c.pin,
                             per.inicio, per.fim, NoForm))
          \/ /\ Len(csv_rows) < MaxRows
             /\ \E form \in Forms :
                   Answer(Request("index", "POST", c, 0, form.loja, NoPeriod),
                          index(csv_rows, suppliers_csv, "POST", c.loja, c.pin,
                                <<>>, <<>>, form))

\* a request to "/edit/<id>": the form of a record, or its change
EditRequest ==
    /\ req = NoReq
    /\ \E c \in Callers, id \in 0..Len(csv_rows) :
          \/ Answer(Request("edit", "GET", c, id, "", NoPeriod),
                    edit(csv_rows, suppliers_csv, "GET", id, c.loja, c.pin, NoForm))
          \/ \E form \in Forms :
                Answer(Request("edit", "POST", c, id, "", NoPeriod),
                       edit(csv_rows, suppliers_csv, "POST", id, c.loja, c.pin, form))

\* a request to "/delete/<id>"
DeleteRequest ==
    /\ req = NoReq
    /\ \E c \in Callers, id \in 0..Len(csv_rows) :
          Answer(Request("delete", "GET", c, id, "", NoPeriod),
                 delete(csv_rows, id, c.loja, c.pin))

\* a request to "/download/csv"
DownloadCsvRequest ==
    /\ req = NoReq
    /\ \E c \in Callers, per \in Periods :
          Answer(Request("download_csv", "GET", c, 0, "", per),
                 download_csv(csv_rows, c.loja, c.pin, per.inicio, per.fim))

\* a request to "/download/pdf"
DownloadPdfRequest ==
    /\ req = NoReq
    /\ \E c \in Callers, per \in Periods :
          Answer(Request("download_pdf", "GET", c, 0, "", per),
                 download_pdf(csv_rows, c.loja, c.pin, per.inicio, per.fim))

\* the request r to "/fornecedores" answered with the outcome out
AnswerAdmin(r, out) ==
    /\ req' = r
    /\ resp' = [status |-> out.status, body |-> <<>>]
    /\ suppliers_csv' = out.suppliers
    /\ UNCHANGED <<csv_rows, call, result>>

\* a request to "/fornecedores": a supplier added, one removed, or the page
FornecedoresRequest ==
    /\ req = NoReq
    /\ \E c \in Callers :
          \/ \E novo \in {<<>>, <<"a">>} :
                AnswerAdmin(Request("fornecedores", "POST", c, 0, "", NoPeriod),
                            fornecedores_admin(suppliers_csv, "POST", c.pin, novo, "", <<>>))
          \/ \E action \in {"", "del"}, idx \in {<<>>, <<"0">>} :
                AnswerAdmin(Request("fornecedores", "GET", c, 0, "", NoPeriod),
                            fornecedores_admin(suppliers_csv, "GET", c.pin, <<>>, action, idx))

\* the response is sent; the next request may be taken
Deliver ==
    /\ req # NoReq
    /\ req' = NoReq
    /\ resp' = NoResp
    /\ UNCHANGED <<csv_rows, suppliers_csv, call, result>>

Next ==
    \/ IndexRequest
    \/ EditRequest
    \/ DeleteRequest
    \/ DownloadCsvRequest
    \/ DownloadPdfRequest
    \/ FornecedoresRequest
    \/ Deliver

Spec == Init /\ [][Next]_vars

\* ------------------------------------------- the stores sharing the service

\* the records the collection may hold before a store's creation is refused in
\* the model
MaxTenantRows == 2

\* two stores, each with its own PIN
TenantCallers ==
    { [loja |-> LOJAS[1], pin |-> "1111"],
      [loja |-> LOJAS[2], pin |-> "2222"] }

\* the dates the stores submit: yyyy-mm-dd; 10 characters with two "-" and a
\* long last part; 10 characters with both "/" and "-"
TenantDates ==
    { <<"2", "0", "2", "4", "-", "0", "1", "-", "3", "1">>,
      <<"1", "-", "2", "-", "3", "4", "5", "6", "7", "8">>,
      <<"1", "/", "2", "/", "3", "-", "4", "-", "5", "6">> }

\* the forms the stores submit, naming their own store or the other one
TenantForms ==
    { [loja |-> l, empresa |-> <<"A">>, funcionario |-> "Ana", data |-> d,
       hora |-> <<"1", "0", ":", "0", "0">>, prazo |-> "1 mes", personalizado |-> <<>>,
       observacoes |-> ""] :
      l \in {LOJAS[1], LOJAS[2]}, d \in TenantDates }

\* the admin has put one supplier in the catalog; no record exists
InitTenants ==
    /\ csv_rows = <<>>
    /\ suppliers_csv = << <<"A">> >>
    /\ req = NoReq
    /\ resp = NoResp
    /\ call = NoCall
    /\ result = Pending

\* a store creates a record
StoreCreate ==
    /\ req = NoReq
    /\ Len(csv_rows) < MaxTenantRows
    /\ \E c \in TenantCallers, form \in TenantForms :
          Answer(Request("index", "POST", c, 0, form.loja, NoPeriod),
                 index(csv_rows, suppliers_csv, "POST", c.loja, c.pin, <<>>, <<>>, form))

\* a store asks for the form of a record or submits it
StoreEdit ==
    /\ req = NoReq
    /\ \E c \in TenantCallers, id \in 0..Len(csv_rows) :
          \/ Answer(Request("edit", "GET", c, id, "", NoPeriod),
                    edit(csv_rows, suppliers_csv, "GET", id, c.loja, c.pin, NoForm))
          \/ \E form \in TenantForms :
                Answer(Request("edit", "POST", c, id, "", NoPeriod),
                       edit(csv_rows, suppliers_csv, "POST", id, c.loja, c.pin, form))

\* a store deletes a record
StoreDelete ==
    /\ req = NoReq
    /\ \E c \in TenantCallers, id \in 0..Len(csv_rows) :
          Answer(Request("delete", "GET", c, id, "", NoPeriod),
                 delete(csv_rows, id, c.loja, c.pin))

NextTenants ==
    \/ StoreCreate
    \/ StoreEdit
    \/ StoreDelete
    \/ Deliver

SpecTenants == InitTenants /\ [][NextTenants]_vars

\* ------------------------------------------------------ check_access, alone

\* configurations of LOJA_PINS: the default one; one where a store's PIN is the
\* admin PIN and another store's PIN is empty; one with a PIN for the empty
\* store name and none for the first store
PinConfigs ==
    { default_pins,
      [l \in {LOJAS[1], LOJAS[2]} |-> IF l = LOJAS[1] THEN "9999" ELSE ""],
      [l \in {"", LOJAS[2]} |-> IF l = "" THEN "1111" ELSE "2222"] }

\* the calls of check_access: a configuration (ADMIN_PIN may be empty), a store
\* (none, two configured ones, an unknown one) and a PIN
AccessCalls ==
    { [fn |-> "check_access", admin_pin |-> a, loja_pins |-> lp, loja |-> l, pin |-> p] :
      a \in {DefaultAdminPin, ""}, lp \in PinConfigs,
      l \in {"", LOJAS[1], LOJAS[2], "Loja X"},
      p \in {"", "1111", "2222", "9999", "0000"} }

InitAccess ==
    /\ Idle
    /\ call \in AccessCalls
    /\ result = Pending

Resolve ==
    /\ call.fn = "check_access"
    /\ ~result.done
    /\ result' = Returned(CheckAccess(call.admin_pin, call.loja_pins, call.loja, call.pin))
    /\ UNCHANGED <<csv_rows, suppliers_csv, req, resp, call>>

NextAccess == Resolve

SpecAccess == InitAccess /\ [][NextAccess]_vars

\* -------------------------------------------------- calcular_proxima, alone

\* the largest custom month count submitted
MaxMonths == 13

\* dd/mm/yyyy of the first and last days of every month of a leap year, of
\* two years that are not (one a century) and of the last year of datetime
GridDates ==
    { Pad2(d) \o <<"/">> \o Pad2(m) \o <<"/">> \o DecStr(y) :
      d \in {1, 28, 29, 30, 31}, m \in 1..12, y \in {2023, 2024, 2100, 9999} }

\* dates that are not dd/mm/yyyy: unpadded, 8 digits, empty, a leading blank,
\* letters, year 0
OddDates ==
    { <<"1", "/", "1", "/", "2", "0", "2", "4">>,
      <<"3", "1", "0", "1", "2", "0", "2", "4">>,
      <<>>,
      <<" ", "5", "/", "0", "1", "/", "2", "0", "2", "4">>,
      <<"a", "a", "/", "b", "b", "/", "c", "c", "c", "c">>,
      <<"0", "1", "/", "0", "1", "/", "0", "0", "0", "0">> }

Times ==
    { <<"1", "0", ":", "0", "0">>, <<"9", ":", "5">>, <<"2", "4", ":", "0", "0">>, <<>> }

\* the policy submitted with its custom field: every policy name, an unknown
\* one and none with an empty custom field; "personalizado" with every count
\* up to MaxMonths, with no count, with a letter and with a superscript two
Policies ==
    { [prazo |-> z, personalizado |-> <<>>] :
        z \in {"15 dias", "1 mes", "2 meses", "3 meses", "6 meses", "12 meses",
               "personalizado", "anual", ""} }
    \cup { [prazo |-> "personalizado", personalizado |-> DecStr(n)] : n \in 0..MaxMonths }
    \cup { [prazo |-> "personalizado", personalizado |-> x] :
             x \in {<<"x">>, <<"sup2">>, <<"0", "2">>} }
    \cup { [prazo |-> "1 mes", personalizado |-> <<"5">>] }

ProximaCalls ==
    { [fn |-> "calcular_proxima", data |-> d, hora |-> h, prazo |-> z.prazo,
       personalizado |-> z.personalizado] :
      d \in GridDates \cup OddDates, h \in Times, z \in Policies }

InitProxima ==
    /\ Idle
    /\ call \in ProximaCalls
    /\ result = Pending

Calcular ==
    /\ call.fn = "calcular_proxima"
    /\ ~result.done
    /\ result' = Returned(calcular_proxima(call.data, call.hora, call.prazo,
                                           call.personalizado))
    /\ UNCHANGED <<csv_rows, suppliers_csv, req, resp, call>>

NextProxima == Calcular

SpecProxima == InitProxima /\ [][NextProxima]_vars

\* ------------------------------------------------ fmt_date and fmt_time, alone

\* the calendar dates whose written forms are normalized: the first, a middle
\* and the last days of the months of a leap year and of two other years
CalendarDates ==
    { [year |-> y, month |-> m, day |-> d] :
      y \in {1999, 2023, 2024}, m \in 1..12, d \in {1, 9, 10, 28} }
    \cup { [year |-> 2024, month |-> 2, day |-> 29],
           [year |-> 2024, month |-> 1, day |-> 31],
           [year |-> 2023, month |-> 12, day |-> 31] }

\* the three written forms of a calendar date
FormDmy(date) ==
    Pad2(date.day) \o <<"/">> \o Pad2(date.month) \o <<"/">> \o DecStr(date.year)

FormIso(date) ==
    DecStr(date.year) \o <<"-">> \o Pad2(date.month) \o <<"-">> \o Pad2(date.day)

FormDigits(date) == Pad2(date.day) \o Pad2(date.month) \o DecStr(date.year)

\* date strings that are no written form of a date: empty, blank, padded with
\* blanks, unpadded, words, and 10-character strings with "-" or "/" that do
\* not split into three parts
OddDateInputs ==
    { <<>>,
      <<" ", " ">>,
      <<" ", "a", "b", "c", " ">>,
      <<"a", "b", "c">>,
      <<"1", "/", "1", "/", "2", "0", "2", "4">>,
      <<"1", "/", "0", "1", "/", "2", "0", "2", "4", " ">>,
      <<"1", "-", "1", "-", "1", "-", "2", "0", "2", "4">>,
      <<"2", "0", "2", "4", "/", "0", "1", "-", "0", "5">>,
      <<"-", "-", "-", "-", "-", "-", "-", "-", "-", "-">>,
      <<"2", "0", "2", "4", "-", "0", "1", "0", "5", "0">>,
      <<"0", "1", "/", "0", "1", "2", "0", "2", "4", "0">>,
      <<"1", "/", "2", "/", "3", "-", "4", "-", "5", "6">>,
      <<"1", "-", "2", "-", "3", "4", "5", "6", "7", "8">>,
      <<"a", "/", "b", "/", "c", "c", "c", "c", "c", "c">>,
      <<"1", "/", "2", "/", "2", "0", "2", "4", "0", "0">> }

\* time strings: with one, two or only colons, digits of every length up to
\* five, a superscript digit, words, blanks
TimeInputs ==
    { <<>>,
      <<" ">>,
      <<"9">>,
      <<"1", "2">>,
      <<"9", "3", "0">>,
      <<"0", "9", "3", "0">>,
      <<"1", "2", "3", "4", "5">>,
      <<"9", ":", "5">>,
      <<"0", "9", ":", "3", "0">>,
      <<"9", ":">>,
      <<":", "5">>,
      <<":">>,
      <<":", ":">>,
      <<"1", ":", "2", ":", "3">>,
      <<"1", "2", "3", ":", "4">>,
      <<"a", ":", "b">>,
      <<" ", "9", ":", "5", " ">>,
      <<" ", "9", "3", "0", " ">>,
      <<"a", "b", "c">>,
      <<" ", "a", "b", " ">>,
      <<"9", "h", "3", "0">>,
      <<"sup2", "sup2", "sup2">> }

\* the calls of fmt_date and fmt_time; pass counts the times the function has
\* been applied again to its own result, as read_all does to what was stored
FmtCalls ==
    { [fn |-> "fmt_date", raw |-> r, pass |-> 0] :
        r \in {FormDmy(date) : date \in CalendarDates}
              \cup {FormIso(date) : date \in CalendarDates}
              \cup {FormDigits(date) : date \in CalendarDates}
              \cup OddDateInputs }
    \cup { [fn |-> "fmt_time", raw |-> r, pass |-> 0] : r \in TimeInputs }

\* fn applied to raw: fmt_time returns for every string, fmt_date may raise
Apply(fn, raw) == IF fn = "fmt_date" THEN fmt_date(raw) ELSE Ok(fmt_time(raw))

InitFmt ==
    /\ Idle
    /\ call \in FmtCalls
    /\ result = Pending

Format ==
    /\ call.fn \in {"fmt_date", "fmt_time"}
    /\ ~result.done
    /\ result' = Returned(Apply(call.fn, call.raw))
    /\ UNCHANGED <<csv_rows, suppliers_csv, req, resp, call>>

\* the function applied to the value it returned
Reformat ==
    /\ call.fn \in {"fmt_date", "fmt_time"}
    /\ result.done
    /\ ~result.value.raised
    /\ call.pass = 0
    /\ call' = [call EXCEPT !.raw = result.value.val, !.pass = 1]
    /\ result' = Returned(Apply(call.fn, result.value.val))
    /\ UNCHANGED <<csv_rows, suppliers_csv, req, resp>>

NextFmt ==
    \/ Format
    \/ Reformat

SpecFmt == InitFmt /\ [][NextFmt]_vars

\* ------------------------------------------------ apply_period_filter, alone

\* the longest list of rows filtered
MaxFilterRows == 3

\* the data of the rows filtered: inside the month of January 2024, on its
\* first and last days, after it, unpadded, written yyyy-mm-dd, and empty
FilterDates ==
    { <<"1", "5", "/", "0", "1", "/", "2", "0", "2", "4">>,
      <<"0", "1", "/", "0", "1", "/", "2", "0", "2", "4">>,
      <<"3", "1", "/", "0", "1", "/", "2", "0", "2", "4">>,
      <<"0", "1", "/", "0", "2", "/", "2", "0", "2", "4">>,
      <<"5", "/", "1", "/", "2", "0", "2", "4">>,
      <<"2", "0", "2", "4", "-", "0", "1", "-", "1", "5">>,
      <<>> }

\* the row at position i of a list, with data d; the positions tell the rows
\* of a list apart
FilterRow(i, d) ==
    [loja |-> LOJAS[1], empresa |-> <<"A">>, funcionario |-> <<"Ana", "Bia", "Caio", "Duda">>[i],
     data |-> d, hora |-> <<"1", "0", ":", "0", "0">>, prazo |-> <<"1", " mes">>,
     proxima_data |-> <<>>, observacoes |-> ""]

FilterLists ==
    UNION { { [i \in 1..n |-> FilterRow(i, ds[i])] : ds \in [1..n -> FilterDates] } :
            n \in 0..MaxFilterRows }

\* the bounds given: none, yyyy-mm-dd, unpadded, a month 13, dd/mm/yyyy
FilterStarts ==
    { <<>>,
      <<"2", "0", "2", "4", "-", "0", "1", "-", "0", "1">>,
      <<"2", "0", "2", "4", "-", "1", "-", "1", "5">>,
      <<"2", "0", "2", "4", "-", "1", "3", "-", "0", "1">> }

FilterEnds ==
    { <<>>,
      <<"2", "0", "2", "4", "-", "0", "1", "-", "3", "1">>,
      <<"2", "0", "2", "3", "-", "1", "2", "-", "3", "1">>,
      <<"3", "1", "/", "0", "1", "/", "2", "0", "2", "4">> }

FilterCalls ==
    { [fn |-> "apply_period_filter", rows |-> rows, inicio |-> a, fim |-> b] :
      rows \in FilterLists, a \in FilterStarts, b \in FilterEnds }

InitFilter ==
    /\ Idle
    /\ call \in FilterCalls
    /\ result = Pending

Filter ==
    /\ call.fn = "apply_period_filter"
    /\ ~result.done
    /\ result' = Returned(apply_period_filter(call.rows, call.inicio, call.fim))
    /\ UNCHANGED <<csv_rows, suppliers_csv, req, resp, call>>

NextFilter == Filter

SpecFilter == InitFilter /\ [][NextFilter]_vars

\* ------------------------------------------- two requests served at once

\* app.run serves each request in a thread of its own. Here req and resp hold
\* one entry for each of two requests: req[w] the request, resp[w] how far its
\* handler has got. A mutation reads the file with read_all, changes the rows
\* it read and writes them with write_all; nothing is held between the two.
Workers == {1, 2}

\* the record a store has created on a date given as yyyy-mm-dd
RaceRow(loja) ==
    [loja |-> loja, empresa |-> <<"A">>, funcionario |-> "Ana",
     data |-> <<"3", "1", "/", "0", "1", "/", "2", "0", "2", "4">>,
     hora |-> <<"1", "0", ":", "0", "0">>, prazo |-> <<"1", " mes">>,
     proxima_data |-> <<"2", "9", "/", "0", "2", "/", "2", "0", "2", "4">>,
     observacoes |-> ""]

\* the collections the two requests find: none, one record, one of each store
RaceFiles ==
    { <<>>,
      <<RaceRow(LOJAS[1])>>,
      <<RaceRow(LOJAS[1]), RaceRow(LOJAS[2])>> }

\* the form of the mutations: a supplier of the catalog, a date 15 days on
RaceForm ==
    [loja |-> LOJAS[1], empresa |-> <<"A">>, funcionario |-> "Bia",
     data |-> <<"1", "5", "/", "0", "2", "/", "2", "0", "2", "4">>,
     hora |-> <<"9", "3", "0">>, prazo |-> "15 dias", personalizado |-> <<>>,
     observacoes |-> ""]

\* the mutations requested: create, edit and delete, by the admin and by each
\* of two stores, on the first two indices
RaceRequests ==
    { [op |-> o, loja |-> c.loja, pin |-> c.pin, id |-> i, form |-> RaceForm] :
      o \in {"index", "edit", "delete"},
      c \in {[loja |-> "", pin |-> "9999"]} \cup TenantCallers,
      i \in 0..1 }
    \ { [op |-> "index", loja |-> c.loja, pin |-> c.pin, id |-> 1, form |-> RaceForm] :
        c \in {[loja |-> "", pin |-> "9999"]} \cup TenantCallers }

\* the handler of mutation r run on the file as read
Handle(r, file, suppliers) ==
    IF r.op = "index"
    THEN index(file, suppliers, "POST", r.loja, r.pin, <<>>, <<>>, r.form)
    ELSE IF r.op = "edit"
    THEN edit(file, suppliers, "POST", r.id, r.loja, r.pin, r.form)
    ELSE delete(file, r.id, r.loja, r.pin)

\* write_all opening the file to append: what it held stays before the rows
Overwritten_Append(file, rows) == file \o write_all(rows)

\* the file after write_all(rows): opened with "w", it holds rows and nothing
\* of what it held
Overwritten(file, rows) == write_all(rows)

NoProgress == [pc |-> "idle", status |-> 0, base |-> <<>>, rows |-> <<>>, seen |-> 0, rank |-> 0]

\* the number of write_all calls made so far
Saves(progress) == Cardinality({w \in Workers : progress[w].rank > 0})

InitRace ==
    /\ csv_rows \in RaceFiles
    /\ suppliers_csv = << <<"A">> >>
    /\ req = [w \in Workers |-> NoReq]
    /\ resp = [w \in Workers |-> NoProgress]
    /\ call = NoCall
    /\ result = Pending

\* the handler of a request up to its write_all: access, read_all, the change
\* of the rows read; a request that is refused or fails is answered at once
Begin(w) ==
    /\ resp[w].pc = "idle"
    /\ \E r \in RaceRequests :
          LET Started(out) ==
                  /\ req' = [req EXCEPT ![w] = r]
                  /\ resp' = [resp EXCEPT ![w] =
                        [pc |-> IF out.status = 302 THEN "loaded" ELSE "answered",
                         status |-> out.status, base |-> csv_rows, rows |-> out.file,
                         seen |-> Saves(resp), rank |-> 0]]
          IN Started(Handle(r, csv_rows, suppliers_csv))
    /\ UNCHANGED <<csv_rows, suppliers_csv, call, result>>

\* write_all of the rows the handler holds, and the redirect
Save(w) ==
    /\ resp[w].pc = "loaded"
    /\ csv_rows' = Overwritten(csv_rows, resp[w].rows)
    /\ resp' = [resp EXCEPT ![w] = [@ EXCEPT !.pc = "answered", !.rank = Saves(resp) + 1]]
    /\ UNCHANGED <<suppliers_csv, req, call, result>>

NextRace == \E w \in Workers : Begin(w) \/ Save(w)

SpecRace == InitRace /\ [][NextRace]_vars

\* ============================================================== properties

\* the access resolved for the store and PIN of request r
Caller(r) == check_access(r.loja, r.pin)

\* r creates, edits (view or submit) or deletes a record
IsMutation(r) ==
    \/ r.op = "index" /\ r.method = "POST"
    \/ r.op = "edit"
    \/ r.op = "delete"

\* r is a listing with no date bounds: the page, the CSV or the PDF export
IsUnboundedList(r) ==
    /\ \/ r.op = "index" /\ r.method = "GET"
       \/ r.op = "download_csv"
       \/ r.op = "download_pdf"
    /\ r.inicio = <<>>
    /\ r.fim = <<>>

\* the rows of store S, in order
RowsOf(rows, S) == LET Keep(r) == r.loja = S IN SelectSeq(rows, Keep)

\* C1: an edit request (view or submit) by a caller scoped to store S, on the
\* index of a stored record whose store is not S, is answered with the access
\* error (403), and the collection after it is the collection before it.
C1_ForeignEditRejected ==
    [][(/\ req = NoReq
        /\ req'.op = "edit"
        /\ Caller(req').mode = "loja"
        /\ req'.id < Len(csv_rows)
        /\ csv_rows[req'.id + 1].loja # req'.loja)
       => (resp'.status = 403 /\ csv_rows' = csv_rows)]_vars

\* the caller of delete request r may remove the record at its index: Admin, or
\* scoped to the store of that record
MayDelete(r, rows) ==
    /\ r.id < Len(rows)
    /\ \/ Caller(r).mode = "admin"
       \/ Caller(r).mode = "loja" /\ rows[r.id + 1].loja = Caller(r).loja

\* C2: a delete request removes the record at the target index only if the
\* caller is Admin or is scoped to the store of that record; in every other
\* case the collection is unchanged, and a change is the removal of exactly
\* that record.
C2_DeleteOnlyWhenPermitted ==
    [][(req = NoReq /\ req'.op = "delete")
       => /\ ~MayDelete(req', csv_rows) => csv_rows' = csv_rows
          /\ csv_rows' # csv_rows => csv_rows' = DelAt(csv_rows, req'.id)]_vars

\* a caller scoped to a store was refused (403) the deletion of a stored record
\* of another store
C2_Witness ==
    /\ req.op = "delete"
    /\ Caller(req).mode = "loja"
    /\ req.id < Len(csv_rows)
    /\ csv_rows[req.id + 1].loja # req.loja
    /\ resp.status = 403

\* C3: whatever the collection holds, a listing with no date bounds (page, CSV
\* or PDF) returns every record to Admin, exactly the records of store S to a
\* caller scoped to S, and no record but the access error (403) to an Open or
\* Denied caller.
C3_ListScope ==
    IsUnboundedList(req) =>
        /\ Caller(req).mode = "admin" => resp.status = 200 /\ resp.body = csv_rows
        /\ Caller(req).mode = "loja"
             => resp.status = 200 /\ resp.body = RowsOf(csv_rows, req.loja)
        /\ Caller(req).mode \in {"open", "denied"}
             => resp.status = 403 /\ resp.body = <<>>

\* C4: a create request by a caller scoped to store S that appends a record
\* appends one record, and its store is S whatever store the form names.
C4_ScopedCreateForcesStore ==
    [][(/\ req = NoReq
        /\ req'.op = "index" /\ req'.method = "POST"
        /\ Caller(req').mode = "loja"
        /\ resp'.status = 302)
       => /\ Len(csv_rows') = Len(csv_rows) + 1
          /\ csv_rows'[Len(csv_rows')].loja = req'.loja]_vars

\* a caller scoped to one store created a record with a form naming another
\* store
C4_Witness ==
    /\ req.op = "index" /\ req.method = "POST"
    /\ Caller(req).mode = "loja"
    /\ req.loja_form \notin {"", req.loja}
    /\ resp.status = 302
    /\ Len(csv_rows) > 0
    /\ csv_rows[Len(csv_rows)].loja = req.loja

\* C5: a create, edit or delete request of an Open or Denied caller is answered
\* with the access error (403) and no record, whatever the collection holds
\* (even rows that cannot be read back), and the collection after it is the
\* collection before it; Open and Denied get the same answer.
C5_UnauthorizedMutationRefused ==
    [][(/\ req = NoReq
        /\ IsMutation(req')
        /\ Caller(req').mode \in {"open", "denied"})
       => /\ resp'.status = 403
          /\ resp'.body = <<>>
          /\ csv_rows' = csv_rows]_vars

\* an Open caller was refused a mutation of a collection that read_all cannot
\* load: the refusal came before any record was read
C5_Witness ==
    /\ IsMutation(req)
    /\ Caller(req).mode = "open"
    /\ resp.status = 403
    /\ csv_rows # <<>>
    /\ read_all(csv_rows).raised

\* C6: the PIN that equals the configured, non-empty admin PIN resolves to
\* Admin for every store (none, a configured one, an unknown one), also when
\* the per-store rule would match.
C6_AdminFirst ==
    (/\ result.done
     /\ call.fn = "check_access"
     /\ call.admin_pin # ""
     /\ call.pin = call.admin_pin)
    => result.value = [mode |-> "admin", loja |-> None]

\* the admin PIN was given with a store whose own PIN is the same, and resolved
\* to Admin
C6_Witness ==
    /\ result.done
    /\ call.fn = "check_access"
    /\ call.admin_pin # ""
    /\ call.pin = call.admin_pin
    /\ call.loja \in DOMAIN call.loja_pins
    /\ call.loja_pins[call.loja] = call.pin
    /\ result.value.mode = "admin"

\* the store and the PIN of call c are not empty and the PIN is the one
\* configured for the store
StoreSecretMatches(c) ==
    /\ c.loja # ""
    /\ c.pin # ""
    /\ c.loja \in DOMAIN c.loja_pins
    /\ c.loja_pins[c.loja] = c.pin

\* C7: a PIN on which the admin rule does not fire resolves to the scoped mode
\* of the store exactly when store and PIN are not empty and the PIN is the one
\* configured for the store, to Denied when the store is not empty and that
\* fails, and to Open when the store is empty.
C7_NonAdminResolution ==
    (/\ result.done
     /\ call.fn = "check_access"
     /\ ~(call.admin_pin # "" /\ call.pin = call.admin_pin))
    => /\ result.value.mode = "loja" <=> StoreSecretMatches(call)
       /\ StoreSecretMatches(call) => result.value.loja = call.loja
       /\ (call.loja # "" /\ ~StoreSecretMatches(call)) => result.value.mode = "denied"
       /\ call.loja = "" => result.value.mode = "open"

\* a configured store was given with a PIN that is not empty, not its own and
\* not the admin PIN, and resolved to Denied
C7_Witness ==
    /\ result.done
    /\ call.fn = "check_access"
    /\ call.loja \in DOMAIN call.loja_pins
    /\ call.loja # ""
    /\ call.pin \notin {"", call.admin_pin, call.loja_pins[call.loja]}
    /\ result.value.mode = "denied"

\* the date due, at midnight, is after the date and time of the service
DueAfterService(due, service) == due.ok /\ service.ok /\ ~DateTimeLE(due, service)

\* C8: every stored record with a next due date has it strictly after its
\* service date combined with its service time.
C8_NextDueAfterService ==
    \A i \in 1..Len(csv_rows) :
        csv_rows[i].proxima_data # <<>>
        => DueAfterService(StrptimeDate(csv_rows[i].proxima_data),
                           StrptimeDateTime(csv_rows[i].data \o <<" ">> \o csv_rows[i].hora))

\* the month count of a month-based policy, -1 for any other policy: the named
\* ones, and "personalizado" with a count written in decimal digits
PolicyMonths(prazo, personalizado) ==
    CASE prazo = "1 mes" -> 1
      [] prazo = "2 meses" -> 2
      [] prazo = "3 meses" -> 3
      [] prazo = "6 meses" -> 6
      [] prazo = "12 meses" -> 12
      [] prazo = "personalizado" /\ personalizado # <<>> /\ AllAsciiDigits(personalizado)
           -> DecVal(personalizado)
      [] OTHER -> -1

\* the last day of a month under the Gregorian leap-year rule
LastDay(year, month) ==
    IF month \in {4, 6, 9, 11} THEN 30
    ELSE IF month # 2 THEN 31
    ELSE IF year % 400 = 0 \/ (year % 4 = 0 /\ year % 100 # 0) THEN 29
    ELSE 28

\* dd/mm/yyyy of the date n months after the date of base, its day clamped to
\* the last day of the target month
ExpectedDue(base, n) ==
    LET Text(year, month) ==
            Pad2(IF base.day < LastDay(year, month) THEN base.day ELSE LastDay(year, month))
                \o <<"/">> \o Pad2(month) \o <<"/">> \o DecStr(year)
        Target(month0) == Text(base.year + (month0 \div 12), (month0 % 12) + 1)
    IN Target(base.month - 1 + n)

\* C9: for every base date and time that parse and every month-based policy of
\* N months, calcular_proxima returns the date of year + (month-1+N) div 12,
\* month (month-1+N) mod 12 + 1 and day min(day, last day of that month).
C9_MonthArithmetic ==
    LET Holds(base, n) ==
            (base.ok /\ n >= 0)
            => /\ ~result.value.raised
               /\ result.value.val = ExpectedDue(base, n)
    IN (result.done /\ call.fn = "calcular_proxima")
       => Holds(StrptimeDateTime(call.data \o <<" ">> \o call.hora),
                PolicyMonths(call.prazo, call.personalizado))

\* s is a canonical date: dd/mm/yyyy, two, two and four digits, of a day that
\* exists
CanonicalDate(s) ==
    /\ Len(s) = 10
    /\ s[3] = "/" /\ s[6] = "/"
    /\ \A i \in {1, 2, 4, 5, 7, 8, 9, 10} : s[i] \in AsciiDigit
    /\ StrptimeDate(s).ok

\* C10: calcular_proxima never raises; it returns the empty string or a
\* canonical date, and the empty string when date and time do not parse, when
\* the policy is not a known one, and when the policy is "personalizado" with a
\* count that is missing or not a number.
C10_FailSoft ==
    LET Known == {"15 dias", "1 mes", "2 meses", "3 meses", "6 meses", "12 meses",
                  "personalizado"}
        Holds(base, out) ==
            /\ ~out.raised
            /\ out.val = <<>> \/ CanonicalDate(out.val)
            /\ ~base.ok => out.val = <<>>
            /\ call.prazo \notin Known => out.val = <<>>
            /\ (call.prazo = "personalizado"
                  /\ PolicyMonths(call.prazo, call.personalizado) < 0) => out.val = <<>>
    IN (result.done /\ call.fn = "calcular_proxima")
       => Holds(StrptimeDateTime(call.data \o <<" ">> \o call.hora), result.value)

\* C11: for every calendar date, fmt_date of its dd/mm/yyyy form, of its
\* yyyy-mm-dd form and of its 8-digit ddmmyyyy form is one and the same
\* string, its dd/mm/yyyy form.
C11_ThreeFormsOneCanonical ==
    (result.done /\ call.fn = "fmt_date" /\ call.pass = 0)
    => \A date \in CalendarDates :
          call.raw \in {FormDmy(date), FormIso(date), FormDigits(date)}
          => result.value = Ok(FormDmy(date))

\* C12: fmt_date applied to a value fmt_date returned returns that same value.
C12_FmtDateIdempotent ==
    (result.done /\ call.fn = "fmt_date" /\ call.pass = 1)
    => result.value = Ok(call.raw)

\* the trimmed date s falls under a format rule: 10 characters with "-" or
\* with "/", or 8 digits
DateRuleApplies(s) ==
    \/ Len(s) = 10 /\ (Contains(s, "-") \/ Contains(s, "/"))
    \/ Len(s) = 8 /\ AllAsciiDigits(s)

\* the trimmed time s falls under a format rule: a colon, or 1 to 4 digits
TimeRuleApplies(s) ==
    \/ Contains(s, ":")
    \/ IsDigitStr(s) /\ Len(s) \in 1..4

\* C13: fmt_date and fmt_time return a string for every input, and the
\* trimmed input itself when it falls under no format rule.
C13_NormalizersNeverFail ==
    LET Verbatim(s) ==
            (\/ call.fn = "fmt_date" /\ ~DateRuleApplies(s)
             \/ call.fn = "fmt_time" /\ ~TimeRuleApplies(s))
            => result.value.val = s
    IN (result.done /\ call.fn \in {"fmt_date", "fmt_time"})
       => (~result.value.raised /\ Verbatim(Strip(call.raw)))

\* x with zeros on its left up to two characters
LeftPad2(x) == IF Len(x) = 0 THEN <<"0", "0">> ELSE IF Len(x) = 1 THEN <<"0">> \o x ELSE x

\* the characters of s before its first c, all of s when it has none
Before(s, c) ==
    LET Cut(at) == IF at = {} THEN s ELSE SubSeq(s, 1, SetMin(at) - 1)
    IN Cut({i \in 1..Len(s) : s[i] = c})

\* the characters of s after its first c
After(s, c) ==
    LET Cut(at) == SubSeq(s, SetMin(at) + 1, Len(s))
    IN Cut({i \in 1..Len(s) : s[i] = c})

\* the time the rules give for the trimmed input s: hours and minutes around
\* the first colon, or the last two digits as minutes of 3 or 4 digits, or 1
\* or 2 digits as the hour, each zero-padded; any other s itself
ExpectedTime(s) ==
    IF s = <<>> THEN <<>>
    ELSE IF Contains(s, ":")
         THEN LeftPad2(Before(s, ":")) \o <<":">> \o LeftPad2(Before(After(s, ":"), ":"))
    ELSE IF IsDigitStr(s) /\ Len(s) \in {3, 4}
         THEN LeftPad2(SubSeq(s, 1, Len(s) - 2)) \o <<":">> \o SubSeq(s, Len(s) - 1, Len(s))
    ELSE IF IsDigitStr(s) /\ Len(s) \in {1, 2}
         THEN LeftPad2(s) \o <<":", "0", "0">>
    ELSE s

\* C14: fmt_time returns zero-padded HH:MM for an input with a colon (minutes
\* 00 when missing), for 3 or 4 digits (the last two the minutes) and for 1 or
\* 2 digits (the hour, minutes 00), and any other input unchanged.
C14_FmtTimeRules ==
    (result.done /\ call.fn = "fmt_time" /\ call.pass = 0)
    => result.value = Ok(ExpectedTime(Strip(call.raw)))

\* C15: the store of every stored record is one of LOJAS; no request persists
\* a record whose store is empty or another name.
C15_StoreInTenantSet ==
    \A i \in 1..Len(csv_rows) : csv_rows[i].loja \in {LOJAS[j] : j \in 1..Len(LOJAS)}

\* a date as one number, ordered as the dates are
DateKey(d) == d.year * 10000 + d.month * 100 + d.day

\* the positions of the rows whose data parses as dd/mm/yyyy and lies between
\* the dates di and df, both included
PositionsWithin(rows, di, df) ==
    { i \in 1..Len(rows) :
        /\ StrptimeDate(rows[i].data).ok
        /\ DateKey(di) <= DateKey(StrptimeDate(rows[i].data))
        /\ DateKey(StrptimeDate(rows[i].data)) <= DateKey(df) }

\* C16: with both bounds present and parsing, apply_period_filter returns
\* exactly the rows whose data parses and lies between the bounds, both
\* included, in their input order; rows whose data does not parse are left out.
C16_FilterExact ==
    LET Holds(di, df) ==
            (di.ok /\ df.ok)
            => result.value = Pick(call.rows, PositionsWithin(call.rows, di, df), 1)
    IN (result.done /\ call.fn = "apply_period_filter"
          /\ call.inicio # <<>> /\ call.fim # <<>>)
       => Holds(StrptimeIso(call.inicio), StrptimeIso(call.fim))

\* both bounds parsed; of the rows given one had a data that does not parse and
\* one the date of the start bound; some rows were kept and some left out
C16_Witness ==
    /\ result.done
    /\ call.fn = "apply_period_filter"
    /\ StrptimeIso(call.inicio).ok
    /\ StrptimeIso(call.fim).ok
    /\ \E i \in 1..Len(call.rows) : ~StrptimeDate(call.rows[i].data).ok
    /\ \E i \in 1..Len(call.rows) :
          /\ StrptimeDate(call.rows[i].data).ok
          /\ DateKey(StrptimeDate(call.rows[i].data)) = DateKey(StrptimeIso(call.inicio))
          /\ call.rows[i] \in {result.value[j] : j \in 1..Len(result.value)}
    /\ Len(result.value) > 0
    /\ Len(result.value) < Len(call.rows)

\* a bound of the call is missing or does not parse as yyyy-mm-dd
BoundMissing(c) ==
    \/ c.inicio = <<>>
    \/ c.fim = <<>>
    \/ ~StrptimeIso(c.inicio).ok
    \/ ~StrptimeIso(c.fim).ok

\* C17: with a bound missing or not parsing, apply_period_filter returns the
\* rows it was given: the same rows in the same order, those whose data does
\* not parse included.
C17_FailOpen ==
    (result.done /\ call.fn = "apply_period_filter" /\ BoundMissing(call))
    => result.value = call.rows

\* the start bound was missing and the end bound parsed; the rows given, one
\* with a data that does not parse and one after the end bound, all came back
C17_Witness ==
    /\ result.done
    /\ call.fn = "apply_period_filter"
    /\ call.inicio = <<>>
    /\ StrptimeIso(call.fim).ok
    /\ \E i \in 1..Len(call.rows) : ~StrptimeDate(call.rows[i].data).ok
    /\ \E i \in 1..Len(call.rows) :
          /\ StrptimeDate(call.rows[i].data).ok
          /\ DateKey(StrptimeDate(call.rows[i].data)) > DateKey(StrptimeIso(call.fim))
    /\ result.value = call.rows

\* the rows of the stores other than S, in order
RowsNotOf(rows, S) == LET Keep(r) == r.loja # S IN SelectSeq(rows, Keep)

\* C18: a create, edit or delete request of a caller scoped to store S leaves
\* the records of the other stores as they were, the same records with the
\* same field values in the same order, and an edit changes the store of no
\* record. Holding for every request, it holds for every sequence of them.
C18_TenantIsolation ==
    [][(/\ req = NoReq
        /\ IsMutation(req')
        /\ Caller(req').mode = "loja")
       => /\ RowsNotOf(csv_rows', req'.loja) = RowsNotOf(csv_rows, req'.loja)
          /\ req'.op = "edit"
               => /\ Len(csv_rows') = Len(csv_rows)
                  /\ \A i \in 1..Len(csv_rows) : csv_rows'[i].loja = csv_rows[i].loja]_vars

\* C19: whatever the successful requests made so far, loading the collection
\* succeeds and returns every stored data and hora as it is stored: the
\* normalization read_all applies raises nothing and changes nothing.
C19_CollectionLoadable == read_all(csv_rows) = Ok(csv_rows)

\* the two requests have both read the file before either wrote it, and both
\* have written: e wrote first, l wrote last
Overlapped(e, l) ==
    /\ resp[e].rank = 1 /\ resp[l].rank = 2
    /\ resp[e].seen = 0 /\ resp[l].seen = 0

\* C20: two mutations are not kept apart. When both read the collection
\* before either writes it, the collection after both writes is what the
\* request that wrote last makes of the collection the two of them read, as
\* if the other had never run: the record the first created, its edit or its
\* deletion is not in it.
C20_LaterSaveOverwrites ==
    \A e, l \in Workers :
        Overlapped(e, l) =>
            /\ resp[e].base = resp[l].base
            /\ csv_rows = Handle(req[l], resp[e].base, suppliers_csv).file
            /\ (req[e].op = "index" /\ req[l].op = "index") =>
                  Len(csv_rows) = Len(resp[e].base) + 1

\* two stores create at once and the collection ends with the record of the
\* second alone; a store deletes while the admin edits another record and
\* the deleted record is still there
C20_Witness ==
    \E e, l \in Workers :
        /\ Overlapped(e, l)
        /\ \/ /\ req[e].op = "index" /\ req[l].op = "index"
              /\ req[e].loja = LOJAS[1] /\ req[l].loja = LOJAS[2]
              /\ resp[e].base = <<>>
              /\ Len(csv_rows) = 1 /\ csv_rows[1].loja = LOJAS[2]
           \/ /\ req[e].op = "delete" /\ req[e].id = 0
              /\ req[l].op = "edit" /\ req[l].id = 1
              /\ Len(resp[e].base) = 2
              /\ Len(resp[e].rows) = 1
              /\ Len(csv_rows) = 2 /\ csv_rows[1] = resp[e].base[1]

====
